---- MODULE Spec2Model ----
(***************************************************************************)
(* Model of Decode/auto_sub_solver.py: the substitution-cipher search      *)
(* engine (scoring, key space, Caesar fast path, Jakobsen polish,          *)
(* annealing worker, crack_once orchestrator, crack escalation controller).*)
(*                                                                         *)
(* Scaling.  The 26-letter alphabet is scaled to NLetters letters.         *)
(* Characters are integers: 1..NLetters are the uppercase letters,         *)
(* NLetters+1..2*NLetters the lowercase letters, 0 is the space and -1 is  *)
(* any other character (digit, punctuation).  Texts are sequences of       *)
(* characters.  Real-valued scores are kept exact as scaled integers,      *)
(* ratios as reduced fractions <<numerator, denominator>>.                 *)
(***************************************************************************)
EXTENDS Integers, Sequences, FiniteSets, TLC

\* ------------------------------------------------------------------
\* Bounds of the model
\* ------------------------------------------------------------------
NLetters == 3
MaxLen == 3
MaxCrackLen == 2
MaxRestarts == 2
MaxIters == 2
MaxWork == 2
MaxCpu == 2
SeedSpace == 2

\* ------------------------------------------------------------------
\* 0. Constants and basic helpers
\* ------------------------------------------------------------------
Letters == 1..NLetters
LowerLetters == (NLetters + 1)..(2 * NLetters)
SpaceCh == 0
OtherCh == -1
Chars == Letters \cup LowerLetters \cup {SpaceCh, OtherCh}

ALPHA == [i \in 1..NLetters |-> i]
LETTER_SPACE == Letters \cup {SpaceCh}

\* Python None and the key kind "CAESAR", coded outside the character codes
None == <<-9>>
CAESAR == <<-8>>

upper(t) == [i \in 1..Len(t) |-> IF t[i] \in LowerLetters THEN t[i] - NLetters ELSE t[i]]
lower(t) == [i \in 1..Len(t) |-> IF t[i] \in Letters THEN t[i] + NLetters ELSE t[i]]

\* the characters of t that are in keep, in order
Filter(t, keep) == SelectSeq(t, LAMBDA c : c \in keep)

\* re.findall(r"[A-Z]{1,}", text): the maximal runs of uppercase letters, in order
RunStarts(t) == {i \in 1..Len(t) : t[i] \in Letters /\ (i = 1 \/ t[i - 1] \notin Letters)}
RunEnd(t, i) ==
    CHOOSE j \in i..Len(t) :
        /\ \A k \in i..j : t[k] \in Letters
        /\ (j = Len(t) \/ t[j + 1] \notin Letters)
NthOf(S, n) == CHOOSE x \in S : Cardinality({y \in S : y <= x}) = n
Runs(t) ==
    [n \in 1..Cardinality(RunStarts(t)) |->
        SubSeq(t, NthOf(RunStarts(t), n), RunEnd(t, NthOf(RunStarts(t), n)))]

findall_runs(text, minlen) ==
    SelectSeq(Runs(text), LAMBDA w : Len(w) >= minlen)

RECURSIVE SumTo(_, _)
SumTo(q, n) == IF n = 0 THEN 0 ELSE q[n] + SumTo(q, n - 1)
SumSeq(q) == SumTo(q, Len(q))

\* ------------------------------------------------------------------
\* Fractions (sense ratios and thresholds), compared exactly
\* ------------------------------------------------------------------
RECURSIVE Gcd(_, _)
Gcd(a, b) == IF b = 0 THEN a ELSE Gcd(b, a % b)

Frac(g, n) == LET d == Gcd(g, n) IN <<g \div d, n \div d>>
FLt(a, b) == a[1] * b[2] < b[1] * a[2]
FLe(a, b) == a[1] * b[2] <= b[1] * a[2]
FGt(a, b) == FLt(b, a)
FGe(a, b) == FLe(b, a)
FMul(a, b) == Frac(a[1] * b[1], a[2] * b[2])

\* ------------------------------------------------------------------
\* 1. Language model: n-gram tables and word frequencies
\* ------------------------------------------------------------------
\* Table values are log10 probabilities in units of 0.1; Zipf values are in
\* units of 0.01.  A model holds the three tables, their floors (log10(0.01/1)
\* = -2.0 for a normalised table) and the word-frequency oracle.
FLOOR == -20

LM1 ==
    [quad |-> (<<1, 2, 1, 2>> :> -12),
     tri  |-> (<<3, 1, 2>> :> -9) @@ (<<1, 2, 1>> :> -14) @@ (<<2, 1, 2>> :> -25),
     bi   |-> (<<1, 2>> :> -6) @@ (<<2, 1>> :> -11) @@ (<<3, 1>> :> -8) @@ (<<2, 3>> :> -27),
     zipf |-> (lower(<<1>>) :> 720) @@ (lower(<<2>>) :> 610) @@ (lower(<<1, 2>>) :> 430)
              @@ (lower(<<2, 1>>) :> 310) @@ (lower(<<3, 1, 2>>) :> 455)]

LM2 ==
    [quad |-> (<<2, 1, 2, 1>> :> -15),
     tri  |-> (<<2, 3, 1>> :> -10) @@ (<<3, 2, 1>> :> -16),
     bi   |-> (<<1, 2>> :> -6) @@ (<<2, 3>> :> -5) @@ (<<3, 1>> :> -9) @@ (<<1, 3>> :> -22)
              @@ (<<3, 2>> :> -21),
     zipf |-> (lower(<<3>>) :> 350) @@ (lower(<<2, 3>>) :> 520) @@ (lower(<<3, 2>>) :> 349)
              @@ (lower(<<1, 3>>) :> 380)]

\* the language models by name
LanguageModels == [LM1 |-> LM1, LM2 |-> LM2]

Lookup(tbl, g, dflt) == IF g \in DOMAIN tbl THEN tbl[g] ELSE dflt

zipf_frequency(m, w) == Lookup(m.zipf, w, 0)

\* sum over every window of length n of the table value (floor when absent)
NgramSum(tbl, text, n) ==
    SumSeq([i \in 1..(IF Len(text) >= n THEN Len(text) - n + 1 ELSE 0) |->
               Lookup(tbl, SubSeq(text, i, i + n - 1), FLOOR)])

\* s4 + 0.3*s3 + 0.1*s2, in units of 0.01
ngram_score(m, text0) ==
    LET text == Filter(text0, Letters)
    IN 10 * NgramSum(m.quad, text, 4) + 3 * NgramSum(m.tri, text, 3)
       + 1 * NgramSum(m.bi, text, 2)

\* ------------------------------------------------------------------
\* 2. Wordfreq scoring and sense metric
\* ------------------------------------------------------------------
word_score(m, text) ==
    LET ws == findall_runs(text, 2)
    IN SumSeq([i \in 1..Len(ws) |-> zipf_frequency(m, lower(ws[i]))])

THR == 350

\* a sense ratio that is 0.0 when no word is left
sense_ratio_zero_when_empty(m, ign, text, thr_) ==
    LET words == SelectSeq(findall_runs(text, 1), LAMBDA w : lower(w) \notin ign)
        good == Cardinality({i \in 1..Len(words) : zipf_frequency(m, lower(words[i])) >= thr_})
    IN IF words = <<>> THEN Frac(0, 1) ELSE Frac(good, Len(words))

\* sense_ratio(text, thr)
sense_ratio_at(m, ign, text, thr_) ==
    LET words == SelectSeq(findall_runs(text, 1), LAMBDA w : lower(w) \notin ign)
        good == Cardinality({i \in 1..Len(words) : zipf_frequency(m, lower(words[i])) >= thr_})
    IN IF words = <<>> THEN Frac(1, 1) ELSE Frac(good, Len(words))

\* sense_ratio(text), thr at its default 3.5
sense_ratio(m, ign, text) == sense_ratio_at(m, ign, text, THR)

\* ngram_score(txt) + lam*word_score(txt); lam is in units of 1/LamDen, the
\* result in units of 0.01/LamDen
LamDen == 10000
combined(m, lamv, txt) == LamDen * ngram_score(m, txt) + lamv * word_score(m, txt)

\* ------------------------------------------------------------------
\* 3. Utility functions
\* ------------------------------------------------------------------
clean(t) == Filter(upper(t), LETTER_SPACE)

\* random.sample(ALPHA, 26): 26 draws without replacement
random_key == {k \in [1..NLetters -> Letters] : \A i, j \in 1..NLetters : i # j => k[i] # k[j]}

\* the inverse permutation of a key: invert(k)[k[i]] = i
invert(k) == [c \in 1..NLetters |-> CHOOSE i \in 1..NLetters : k[i] = c]

\* a swap that writes one of the two positions only
swap_two_half(k, a, b) == [k EXCEPT ![a] = k[b]]

\* swap_two with the two sampled positions a, b
swap_two(k, a, b) == [k EXCEPT ![a] = k[b], ![b] = k[a]]

\* str.translate with maketrans(ALPHA, to)
translate(t, to) == [i \in 1..Len(t) |-> IF t[i] \in Letters THEN to[t[i]] ELSE t[i]]

\* a decode that does not uppercase the ciphertext
decode_as_typed(ct, key) == translate(ct, key)

decode(ct, key) == translate(upper(ct), key)

\* the text a score is computed on
view(raw, use_clean_) == IF use_clean_ THEN clean(raw) ELSE upper(raw)

IsPerm(k) == /\ DOMAIN k = 1..NLetters
             /\ {k[i] : i \in 1..NLetters} = Letters

\* ------------------------------------------------------------------
\* 4. Caesar shift quick check
\* ------------------------------------------------------------------
\* ALPHA[s:] + ALPHA[:s]
rotation(s) == [i \in 1..NLetters |-> ((i - 1 + s) % NLetters) + 1]

CAESAR_HIT == <<9, 10>>

\* a test that lets an equal ratio replace the best rotation
caesar_not_worse(r, best_ratio) == FGe(r, best_ratio)

\* the test that replaces the best rotation seen so far
caesar_better(r, best_ratio) == FGt(r, best_ratio)

\* a report test with the threshold 0.50
caesar_confident_half(best_ratio) == FGe(best_ratio, <<1, 2>>)

\* the test that reports the best rotation
caesar_confident(best_ratio) == FGe(best_ratio, CAESAR_HIT)

\* one iteration of the loop `for s in range(26)`
caesar_body(m, ign, ct, use_clean_, s, acc) ==
    LET tbl == rotation(s)
        plain == translate(upper(ct), tbl)
        txt == IF use_clean_ THEN clean(plain) ELSE upper(plain)
        r == sense_ratio(m, ign, txt)
    IN IF caesar_better(r, acc.best_ratio)
       THEN [best_ratio |-> r, best_plain |-> plain, best_key |-> tbl]
       ELSE acc

RECURSIVE caesar_loop(_, _, _, _, _, _)
caesar_loop(m, ign, ct, use_clean_, s, acc) ==
    IF s >= NLetters THEN acc
    ELSE caesar_loop(m, ign, ct, use_clean_, s + 1, caesar_body(m, ign, ct, use_clean_, s, acc))

\* returns <<plaintext or None, key kind or None, best ratio>>
caesar_try(m, ign, ct, use_clean_) ==
    LET acc == caesar_loop(m, ign, ct, use_clean_, 0,
                           [best_ratio |-> Frac(0, 1), best_plain |-> None, best_key |-> None])
    IN IF caesar_confident(acc.best_ratio)
       THEN <<acc.best_plain, CAESAR, acc.best_ratio>>
       ELSE <<None, None, acc.best_ratio>>

\* ------------------------------------------------------------------
\* Scoring of keys
\* ------------------------------------------------------------------
\* every sequence of NLetters letters
KeyShapes == [1..NLetters -> Letters]

\* ngram_score(txt)+lam*word_score(txt) of the text a key decodes the cipher
\* to, txt being clean(raw) or raw.upper()
\* the score as a function of the text
text_score(m, lam_) == [txt \in Seq(Chars) |-> combined(m, lam_, txt)]

key_score(m, cipher_, lam_, use_clean_) ==
    [k \in KeyShapes |-> text_score(m, lam_)[view(decode(cipher_, k), use_clean_)]]

\* the same function over the permutations, as a table
Tabulate(f) == [k \in random_key |-> f[k]] @@ <<>>

\* ------------------------------------------------------------------
\* 5. Jakobsen polish
\* ------------------------------------------------------------------
\* A polisher state: pc is "while" (loop test), "pair" (body of the inner
\* loop for the pair i < j, positions 1-based), "final", "done" or "error".
JakInit(key_) ==
    [pc |-> "while", best_key |-> key_, changed |-> TRUE, i |-> 0, j |-> 0,
     final_s |-> 0]

\* lst[i], lst[j] = lst[j], lst[i]
jak_swap(k, i, j) == [k EXCEPT ![i] = k[j], ![j] = k[i]]

\* an adoption test that takes an equal score too
jak_not_worse(s, s0) == s >= s0

\* the adoption test `s > s0`
jak_improves(s, s0) == s > s0

\* a loop head that does not reset `changed`
JakWhileNoReset(js) ==
    IF js.changed
    THEN [js EXCEPT !.i = 1, !.j = 2, !.pc = "pair"]
    ELSE [js EXCEPT !.pc = "final"]

\* a loop that makes one pass only
JakWhileOnePass(js) ==
    IF js.changed /\ js.i = 0
    THEN [js EXCEPT !.changed = FALSE, !.i = 1, !.j = 2, !.pc = "pair"]
    ELSE [js EXCEPT !.pc = "final"]

\* `while changed: changed=False`, then the first pair; else the final score
JakWhile(js) ==
    IF js.changed
    THEN [js EXCEPT !.changed = FALSE, !.i = 1, !.j = 2, !.pc = "pair"]
    ELSE [js EXCEPT !.pc = "final"]

\* next pair of `for i in range(25): for j in range(i+1,26)`
JakAdvance(js) ==
    IF js.j < NLetters THEN [js EXCEPT !.j = js.j + 1]
    ELSE IF js.i < NLetters - 1 THEN [js EXCEPT !.i = js.i + 1, !.j = js.i + 2]
    ELSE [js EXCEPT !.pc = "while"]

\* body of the inner loop; sc is the score of a key under use_clean.
\* list(None) raises TypeError
JakPair(js, sc) ==
    IF js.best_key = None
    THEN [js EXCEPT !.pc = "error"]
    ELSE LET k2 == jak_swap(js.best_key, js.i, js.j)
             s == sc[k2]
             s0 == sc[js.best_key]
         IN IF jak_improves(s, s0)
            THEN JakAdvance([js EXCEPT !.best_key = k2, !.changed = TRUE])
            ELSE JakAdvance(js)

\* final_s, always scored on the cleaned text; scf is the score under clean
JakFinal(js, scf) == [js EXCEPT !.final_s = scf[js.best_key], !.pc = "done"]

JakStep(js, sc, scf) ==
    IF js.pc = "while" THEN JakWhile(js)
    ELSE IF js.pc = "pair" THEN JakPair(js, sc)
    ELSE JakFinal(js, scf)

RECURSIVE JakRun(_, _, _)
JakRun(js, sc, scf) ==
    IF js.pc \in {"done", "error"} THEN js ELSE JakRun(JakStep(js, sc, scf), sc, scf)

\* the whole call: the final polisher state (best_key and final_s, or error)
jakobsen(key_, sc, scf) == JakRun(JakInit(key_), sc, scf)

\* ------------------------------------------------------------------
\* 6. Annealing worker
\* ------------------------------------------------------------------
\* float('-inf') is <<>>, a finite score v is <<v>>
NegInf == <<>>
ScoreGt(s, best_s) == best_s = NegInf \/ s > best_s[1]
ScoreLe(a, b) == a = NegInf \/ (b # NegInf /\ a[1] <= b[1])

TEMP0 == <<20, 1>>
DECAY == <<995, 1000>>

Task(cipher_, restarts_, iters_, lam_, clean_flag_, seed_) ==
    [cipher |-> cipher_, restarts |-> restarts_, iters |-> iters_, lam |-> lam_,
     clean_flag |-> clean_flag_, seed |-> seed_]

\* A worker state: pc is "start", "restart" (head of the restart loop),
\* "iter" (head of the inner loop) or "done".
\* rng is the state of the process's random generator: None before it is
\* seeded (whatever earlier code left), else <<seed, n>>, n draws after
\* random.seed(seed).
\* Two observers of the run: peak is the highest score a current key of the
\* run has had, ends lists the end state <<key, raw, s, steps>> of each
\* trajectory of the run.
WorkerInit ==
    [pc |-> "start", idx |-> 0, it |-> 0, key |-> None, raw |-> <<>>, s |-> 0,
     temp |-> TEMP0, bk |-> None, br |-> <<>>, best_s |-> NegInf, rng |-> None,
     peak |-> NegInf, ends |-> <<>>]

\* the higher of two scores
ScoreMax(a, b) == IF ScoreLe(a, b) THEN b ELSE a

\* the generator after one more draw
rng_next(g) == IF g = None THEN None ELSE <<g[1], g[2] + 1>>

\* The values the next draw of a generator in state g can return.  The
\* generator is deterministic: st[seed] holds the draws already seen after
\* random.seed(seed), in order, and a draw at a position seen before returns
\* the same value again; an unseeded generator can return any value of all.
rng_draws(g, st, all) ==
    IF g = None THEN all
    ELSE IF g[2] + 1 <= Len(st[g[1]]) THEN {st[g[1]][g[2] + 1]} \cap all
    ELSE all

\* what is known of the generator's streams after the draw of v in state g
rng_seen(g, st, v) ==
    IF g = None \/ g[2] + 1 <= Len(st[g[1]]) THEN st
    ELSE [st EXCEPT ![g[1]] = Append(st[g[1]], v)]

\* a worker that does not seed the generator
WorkerStartNoSeed(t, w) ==
    [w EXCEPT !.pc = "restart", !.best_s = NegInf, !.bk = None, !.br = <<>>]

\* random.seed(seed); best_s,bk,br=float('-inf'),None,''
WorkerStart(t, w) ==
    [w EXCEPT !.pc = "restart", !.best_s = NegInf, !.bk = None, !.br = <<>>,
              !.rng = <<t.seed, 0>>]

\* head of `for idx in range(restarts)` with the drawn key k: a new
\* trajectory; sc is the score of a key under the task's clean flag
WorkerRestart(t, w, k, sc) ==
    [w EXCEPT !.key = k, !.raw = decode(t.cipher, k), !.s = sc[k],
              !.temp = TEMP0, !.it = 0, !.pc = "iter", !.rng = rng_next(w.rng),
              !.peak = ScoreMax(w.peak, <<sc[k]>>)]

\* whether the move with score difference d may be accepted / may be rejected:
\* `d>0 or math.exp(d/temp)>random.random()`, random() in [0, 1)
may_accept(d) == TRUE
may_reject(d) == d < 0

\* an inner iteration that cools down on an accepted move only
WorkerIterCoolOnAccept(t, w, a, b, acc, sc) ==
    LET k2 == swap_two(w.key, a, b)
    IN IF acc
       THEN [w EXCEPT !.key = k2, !.raw = decode(t.cipher, k2), !.s = sc[k2],
                      !.temp = FMul(w.temp, DECAY), !.it = w.it + 1, !.rng = rng_next(w.rng)]
       ELSE [w EXCEPT !.it = w.it + 1, !.rng = rng_next(w.rng)]

\* one inner iteration with sampled positions a, b and acceptance outcome acc
WorkerIter(t, w, a, b, acc, sc) ==
    LET k2 == swap_two(w.key, a, b)
        r2 == decode(t.cipher, k2)
        s2 == sc[k2]
        moved == IF acc
                 THEN [w EXCEPT !.key = k2, !.raw = r2, !.s = s2,
                                !.peak = ScoreMax(w.peak, <<s2>>)]
                 ELSE w
    IN [moved EXCEPT !.temp = FMul(w.temp, DECAY), !.it = w.it + 1, !.rng = rng_next(w.rng)]

\* a test that keeps the end of the latest trajectory
worker_latest(s, best_s) == TRUE

\* a test that replaces the worker's best by an equal score too
worker_not_worse(s, best_s) == best_s = NegInf \/ s >= best_s[1]

\* the test that replaces the worker's best `s>best_s`
worker_better(s, best_s) == ScoreGt(s, best_s)

\* end of a trajectory: keep the best, next restart
WorkerEndTrajectory(w) ==
    LET kept == IF worker_better(w.s, w.best_s)
                THEN [w EXCEPT !.bk = w.key, !.br = w.raw, !.best_s = <<w.s>>]
                ELSE w
    IN [kept EXCEPT !.idx = w.idx + 1, !.pc = "restart",
                    !.ends = Append(w.ends, <<w.key, w.raw, <<w.s>>, w.it>>)]

\* `return bk,br,best_s`: the worker's other locals are gone
WorkerReturn(w) ==
    [WorkerInit EXCEPT !.pc = "done", !.bk = w.bk, !.br = w.br, !.best_s = w.best_s,
                       !.peak = w.peak, !.ends = w.ends]

\* the returned tuple of a worker that is done
WorkerResult(w) == <<w.bk, w.br, w.best_s>>

\* --- the worker as a function to the set of results it can return ---
SwapPairs == {p \in (1..NLetters) \X (1..NLetters) : p[1] # p[2]}

\* keys a trajectory can hold after one more inner iteration from a key in K
IterKeys(K, sc) ==
    UNION {{swap_two(k, p[1], p[2]) : p \in {q \in SwapPairs : may_accept(sc[swap_two(k, q[1], q[2])] - sc[k])}}
           \cup {k2 \in {k} : \E p \in SwapPairs : may_reject(sc[swap_two(k, p[1], p[2])] - sc[k])}
           : k \in K}

\* keys a trajectory can end with after n more inner iterations
RECURSIVE TrajectoryKeys(_, _, _)
TrajectoryKeys(K, n, sc) ==
    IF n = 0 THEN K
    ELSE LET K2 == IterKeys(K, sc)
         IN IF K2 = K THEN K ELSE TrajectoryKeys(K2, n - 1, sc)

\* values of bk after one more restart, from the values in B
RestartBest(B, ends, sc) ==
    {IF worker_better(sc[k], IF b = None THEN NegInf ELSE <<sc[b]>>) THEN k ELSE b :
        b \in B, k \in ends}

RECURSIVE WorkerBest(_, _, _, _)
WorkerBest(B, ends, n, sc) ==
    IF n = 0 THEN B
    ELSE LET B2 == RestartBest(B, ends, sc)
         IN IF B2 = B THEN B ELSE WorkerBest(B2, ends, n - 1, sc)

\* the results <<bk, br, best_s>> a call _worker(t) can return
worker_results(t, sc) ==
    LET ends == TrajectoryKeys(random_key, t.iters, sc)
        best == WorkerBest({None}, ends, t.restarts, sc)
    IN {IF b = None THEN <<None, <<>>, NegInf>>
        ELSE <<b, decode(t.cipher, b), <<sc[b]>> >> : b \in best}

\* ------------------------------------------------------------------
\* 7. Crack orchestrator with adaptive escalation: state
\* ------------------------------------------------------------------
VARIABLES
    \* inputs and environment
    cipher, lm, IGNORE_SET, use_clean, parallel, cpu_count, stop_sense,
    llama_check, llama_always,
    \* the thr argument of a sense_ratio call
    thr,
    \* search parameters (arguments of crack_once, locals of crack)
    restarts, iters, lam,
    \* result of the last crack_once
    key, raw, score,
    \* locals of crack
    pc, caesar_plain, caesar_key, ratio, llama_ok, ans,
    best_key, best_raw, best_ratio, rounds, ret,
    \* standard input: the lines not read yet
    stdin,
    \* observers of crack: number of crack_once calls, sense ratio of the first
    \* pass, highest sense ratio of all passes, judge calls, prompts shown
    calls, first_ratio, max_ratio, judged, asked,
    \* observer of crack: what the judge endpoint did in the last judge call
    judge_reply,
    \* crack_once: its position, tasks, workers, gathered results, polisher
    co_pc, tasks, wk, results, jk,
    \* the random generator: the draws seen so far after each random.seed(seed)
    stream,
    \* observer of jakobsen: the position pairs evaluated in the current pass
    evals

inputVars == <<cipher, lm, IGNORE_SET, use_clean, parallel, cpu_count, stop_sense,
               llama_check, llama_always, thr>>
paramVars == <<restarts, iters, lam>>
outVars == <<key, raw, score>>
crackVars == <<pc, caesar_plain, caesar_key, ratio, llama_ok, ans,
               best_key, best_raw, best_ratio, rounds, ret, stdin>>
obsVars == <<calls, first_ratio, max_ratio, judged, asked, judge_reply>>
coVars == <<co_pc, tasks, wk, results, jk, stream, evals>>
vars == <<inputVars, paramVars, outVars, crackVars, obsVars, coVars>>

\* ------------------------------------------------------------------
\* 7-a. Single-pass crack: crack_once, step by step
\* ------------------------------------------------------------------
Error == <<-7>>

\* ncpu = mp.cpu_count() if parallel else 1
ncpu_of(parallel_, cpus) == IF parallel_ THEN cpus ELSE 1

\* chunk = (restarts + ncpu - 1) // ncpu
chunk_of(restarts_, n) == (restarts_ + n - 1) \div n

\* a reduction that takes the last result with the highest score
max_last(res) ==
    LET i == CHOOSE i \in 1..Len(res) :
                 /\ \A j \in 1..Len(res) : ScoreLe(res[j][3], res[i][3])
                 /\ \A j \in (i + 1)..Len(res) : ~ScoreLe(res[i][3], res[j][3])
    IN res[i]

\* max(results, key=lambda x: x[2]): the first result with the highest score
max_first(res) ==
    LET i == CHOOSE i \in 1..Len(res) :
                 /\ \A j \in 1..Len(res) : ScoreLe(res[j][3], res[i][3])
                 /\ \A j \in 1..(i - 1) : ~ScoreLe(res[i][3], res[j][3])
    IN res[i]

\* random.randrange(1 << 30)
Seeds == 0..(SeedSpace - 1)

\* nothing drawn yet after any seed
NoStream == [s \in Seeds |-> <<>>]

CoStart ==
    /\ co_pc = "start"
    /\ LET n == ncpu_of(parallel, cpu_count)
           chunk == chunk_of(restarts, n)
       IN /\ \E seeds \in [1..n -> Seeds] :
                tasks' = [i \in 1..n |-> Task(cipher, chunk, iters, lam, use_clean, seeds[i])]
          /\ wk' = [i \in 1..n |-> WorkerInit]
    /\ co_pc' = "workers"
    /\ UNCHANGED <<inputVars, paramVars, outVars, crackVars, obsVars, results, jk, evals, stream>>

\* pool.map runs the workers concurrently; the list comprehension one by one
CanRun(i) ==
    /\ co_pc = "workers"
    /\ i \in 1..Len(tasks)
    /\ \/ parallel /\ Len(tasks) > 1
       \/ \A j \in 1..(i - 1) : wk[j].pc = "done"

task_score(t) == key_score(LanguageModels[lm], t.cipher, t.lam, t.clean_flag)

WkStart(i) ==
    /\ CanRun(i)
    /\ wk[i].pc = "start"
    /\ wk' = [wk EXCEPT ![i] = WorkerStart(tasks[i], wk[i])]
    /\ UNCHANGED <<inputVars, paramVars, outVars, crackVars, obsVars, co_pc, tasks, results, jk, evals, stream>>

WkRestart(i) ==
    /\ CanRun(i)
    /\ wk[i].pc = "restart"
    /\ wk[i].idx < tasks[i].restarts
    /\ \E k \in rng_draws(wk[i].rng, stream, random_key) :
          /\ wk' = [wk EXCEPT ![i] = WorkerRestart(tasks[i], wk[i], k, task_score(tasks[i]))]
          /\ stream' = rng_seen(wk[i].rng, stream, k)
    /\ UNCHANGED <<inputVars, paramVars, outVars, crackVars, obsVars, co_pc, tasks, results, jk, evals>>

\* the draws of one inner iteration: the two positions of swap_two and
\* whether the move is taken
IterDraws == {v \in (1..NLetters) \X (1..NLetters) \X BOOLEAN : v[1] # v[2]}

WkIter(i) ==
    /\ CanRun(i)
    /\ wk[i].pc = "iter"
    /\ wk[i].it < tasks[i].iters
    /\ \E v \in rng_draws(wk[i].rng, stream, IterDraws) :
          /\ LET d == task_score(tasks[i])[swap_two(wk[i].key, v[1], v[2])] - wk[i].s
             IN IF v[3] THEN may_accept(d) ELSE may_reject(d)
          /\ wk' = [wk EXCEPT ![i] = WorkerIter(tasks[i], wk[i], v[1], v[2], v[3], task_score(tasks[i]))]
          /\ stream' = rng_seen(wk[i].rng, stream, v)
    /\ UNCHANGED <<inputVars, paramVars, outVars, crackVars, obsVars, co_pc, tasks, results, jk, evals>>

WkEndTrajectory(i) ==
    /\ CanRun(i)
    /\ wk[i].pc = "iter"
    /\ wk[i].it >= tasks[i].iters
    /\ wk' = [wk EXCEPT ![i] = WorkerEndTrajectory(wk[i])]
    /\ UNCHANGED <<inputVars, paramVars, outVars, crackVars, obsVars, co_pc, tasks, results, jk, evals, stream>>

WkReturn(i) ==
    /\ CanRun(i)
    /\ wk[i].pc = "restart"
    /\ wk[i].idx >= tasks[i].restarts
    /\ wk' = [wk EXCEPT ![i] = WorkerReturn(wk[i])]
    /\ UNCHANGED <<inputVars, paramVars, outVars, crackVars, obsVars, co_pc, tasks, results, jk, evals, stream>>

\* all workers are back: reduce and call jakobsen
CoReduce ==
    /\ co_pc = "workers"
    /\ \A i \in 1..Len(tasks) : wk[i].pc = "done"
    /\ results' = [i \in 1..Len(tasks) |-> WorkerResult(wk[i])]
    /\ wk' = <<>>
    /\ LET best == max_first(results')
       IN /\ key' = best[1]
          /\ raw' = best[2]
          /\ score' = best[3]
          /\ jk' = JakInit(best[1])
    /\ evals' = <<>>
    \* no draw follows the workers' return
    /\ stream' = NoStream
    /\ co_pc' = "jakobsen"
    /\ UNCHANGED <<inputVars, paramVars, crackVars, obsVars, tasks>>

JkWhile ==
    /\ co_pc = "jakobsen"
    /\ jk.pc = "while"
    /\ jk' = JakWhile(jk)
    /\ evals' = IF jk.changed THEN <<>> ELSE evals
    /\ UNCHANGED <<inputVars, paramVars, outVars, crackVars, obsVars, co_pc, tasks, wk, results, stream>>

JkPair ==
    /\ co_pc = "jakobsen"
    /\ jk.pc = "pair"
    /\ jk' = JakPair(jk, key_score(LanguageModels[lm], cipher, lam, use_clean))
    /\ evals' = Append(evals, <<jk.i, jk.j>>)
    /\ UNCHANGED <<inputVars, paramVars, outVars, crackVars, obsVars, co_pc, tasks, wk, results, stream>>

\* a final score taken under the view of the comparisons
JkFinalInView ==
    /\ co_pc = "jakobsen"
    /\ jk.pc = "final"
    /\ jk' = JakFinal(jk, key_score(LanguageModels[lm], cipher, lam, use_clean))
    /\ UNCHANGED <<inputVars, paramVars, outVars, crackVars, obsVars, co_pc, tasks, wk, results, evals, stream>>

JkFinal ==
    /\ co_pc = "jakobsen"
    /\ jk.pc = "final"
    /\ jk' = JakFinal(jk, key_score(LanguageModels[lm], cipher, lam, TRUE))
    /\ UNCHANGED <<inputVars, paramVars, outVars, crackVars, obsVars, co_pc, tasks, wk, results, evals, stream>>

\* key, score = jakobsen(...); raw = decode(cipher, key); return
CoReturn ==
    /\ co_pc = "jakobsen"
    /\ jk.pc = "done"
    /\ key' = jk.best_key
    /\ score' = <<jk.final_s>>
    /\ raw' = decode(cipher, jk.best_key)
    /\ co_pc' = "done"
    /\ UNCHANGED <<inputVars, paramVars, crackVars, obsVars, tasks, wk, results, jk, evals, stream>>

\* the exception raised inside jakobsen leaves crack_once
CoRaise ==
    /\ co_pc = "jakobsen"
    /\ jk.pc = "error"
    /\ co_pc' = "error"
    /\ UNCHANGED <<inputVars, paramVars, outVars, crackVars, obsVars, tasks, wk, results, jk, evals, stream>>

\* --- crack_once as a function to the set of its outcomes: a result
\* <<key, raw, score>> or Error ---
\* a return that decodes the cleaned ciphertext
crack_once_finish_cleaned(cipher_, best, sc, scf) ==
    LET js == jakobsen(best[1], sc, scf)
    IN IF js.pc = "error" THEN Error
       ELSE <<js.best_key, decode(clean(cipher_), js.best_key), <<js.final_s>> >>

crack_once_finish(cipher_, best, sc, scf) ==
    LET js == jakobsen(best[1], sc, scf)
    IN IF js.pc = "error" THEN Error
       ELSE <<js.best_key, decode(cipher_, js.best_key), <<js.final_s>> >>

crack_once(m, cipher_, restarts_, iters_, lam_, use_clean_, n) ==
    LET sc == Tabulate(key_score(m, cipher_, lam_, use_clean_))
        scf == IF use_clean_ THEN sc ELSE Tabulate(key_score(m, cipher_, lam_, TRUE))
        wr == worker_results(Task(cipher_, chunk_of(restarts_, n), iters_, lam_, use_clean_, 0), sc)
        firsts == {max_first(res) : res \in [1..n -> wr]}
    IN {crack_once_finish(cipher_, best, sc, scf) : best \in firsts}

\* ------------------------------------------------------------------
\* 7-b. crack: fast path, first pass, judge, prompts, escalation
\* ------------------------------------------------------------------
\* Python truth value of `caesar_plain` (a str or None)
truthy(x) == x # None /\ x # <<>>

\* replies of the judge endpoint as llama_is_english sees them
JudgeReplies ==
    {[requests |-> FALSE, raised |-> FALSE, status |-> 0, yes |-> FALSE],
     [requests |-> TRUE, raised |-> TRUE, status |-> 0, yes |-> FALSE],
     [requests |-> TRUE, raised |-> FALSE, status |-> 500, yes |-> TRUE],
     [requests |-> TRUE, raised |-> FALSE, status |-> 200, yes |-> FALSE],
     [requests |-> TRUE, raised |-> FALSE, status |-> 200, yes |-> TRUE]}

\* no judge call was made yet
NoReply == [requests |-> FALSE, raised |-> FALSE, status |-> -1, yes |-> FALSE]

\* a judge that does not look at the status of the reply
llama_reads_any_status(reply) ==
    IF ~reply.requests THEN FALSE
    ELSE IF reply.raised THEN FALSE
    ELSE reply.yes

llama_is_english(reply) ==
    IF ~reply.requests THEN FALSE
    ELSE IF reply.raised THEN FALSE
    ELSE reply.status = 200 /\ reply.yes

\* the lines a user types
Lines == {"", " S", "Q", "Y", "n"}
\* what standard input holds when crack starts: nothing, or one line
StdinContents == {<<>>} \cup {<<l>> : l \in Lines}
\* input() raises EOFError at the end of standard input
input_eof(in_) == in_ = <<>>
input_rest(in_) == IF in_ = <<>> THEN in_ ELSE Tail(in_)
\* .strip().lower()
strip_lower(l) ==
    IF l = " S" THEN "s" ELSE IF l = "Q" THEN "q" ELSE IF l = "Y" THEN "y" ELSE l
startswith(a, c) == a # "" /\ a = c

\* the judge is consulted
judge_wanted(check, always, ratio_, stop) ==
    check /\ (always \/ FGe(ratio_, FMul(stop, <<3, 4>>)))

\* the first prompt is shown
accept_asked(llama_ok_, ratio_, stop) == llama_ok_ \/ FGe(ratio_, stop)

\* the second prompt is shown
look_asked(llama_ok_, ratio_, stop) == FLt(ratio_, stop) /\ ~llama_ok_

MAX_ROUNDS == 3

\* a loop test without the cap on the rounds
escalate_uncapped(ratio_, stop, rounds_) == FLt(ratio_, stop)

\* the escalation loop test `ratio < stop_sense and rounds < 3`
escalate_more(ratio_, stop, rounds_) == FLt(ratio_, stop) /\ rounds_ < MAX_ROUNDS

\* a test that keeps the lower ratio
round_worse(ratio_, best_ratio_) == FLt(ratio_, best_ratio_)

\* `if ratio > best_ratio`
round_better(ratio_, best_ratio_) == FGt(ratio_, best_ratio_)

\* a second prompt that takes every answer as acceptance
look_accepts_any(a) == TRUE

\* the answers that accept at the second prompt `ans in ("y", "")`
look_accepts(a) == a \in {"y", ""}

\* the answers taken when a prompt hits end of input
ACCEPT_EOF == "a"
LOOK_EOF == "n"

Texts(chars, n) == UNION {[1..k -> chars] : k \in 0..n}

\* ciphertexts of the crack runs
CrackCiphers ==
    Texts({SpaceCh, OtherCh}, MaxCrackLen) \cup {<<1>>, <<1, 2>>, <<2, 1>>, <<2, OtherCh, 1>>}
HasOther(t) == \E i \in 1..Len(t) : t[i] = OtherCh
LAM0 == 15000

FMax(a, b) == IF FGt(b, a) THEN b ELSE a

CrackCaesar ==
    /\ pc = "start"
    /\ LET c == caesar_try(LanguageModels[lm], IGNORE_SET, cipher, use_clean)
       IN /\ caesar_plain' = c[1]
          /\ caesar_key' = c[2]
          /\ ratio' = c[3]
          /\ IF truthy(c[1])
             THEN pc' = "returned" /\ ret' = <<c[2], c[1], c[3]>>
             ELSE pc' = "first_pass" /\ ret' = ret
    /\ UNCHANGED <<inputVars, paramVars, outVars, llama_ok, ans, best_key, best_raw,
                   best_ratio, rounds, stdin, obsVars, coVars>>

CrackFirstPass ==
    /\ pc = "first_pass"
    /\ calls' = calls + 1
    /\ \E out \in crack_once(LanguageModels[lm], cipher, restarts, iters, lam, use_clean,
                             ncpu_of(parallel, cpu_count)) :
          IF out = Error
          THEN /\ pc' = "error"
               /\ UNCHANGED <<outVars, ratio, first_ratio, max_ratio>>
          ELSE /\ key' = out[1]
               /\ raw' = out[2]
               /\ score' = out[3]
               /\ ratio' = sense_ratio(LanguageModels[lm], IGNORE_SET, view(out[2], use_clean))
               /\ first_ratio' = ratio'
               /\ max_ratio' = ratio'
               /\ pc' = "judge"
    /\ UNCHANGED <<inputVars, paramVars, caesar_plain, caesar_key, llama_ok, ans, best_key,
                   best_raw, best_ratio, rounds, ret, stdin, judged, asked, judge_reply, coVars>>

CrackJudge ==
    /\ pc = "judge"
    /\ IF judge_wanted(llama_check, llama_always, ratio, stop_sense)
       THEN /\ \E reply \in JudgeReplies :
                  /\ llama_ok' = llama_is_english(reply)
                  /\ judge_reply' = reply
            /\ judged' = judged + 1
       ELSE /\ llama_ok' = FALSE
            /\ judged' = judged
            /\ judge_reply' = judge_reply
    /\ pc' = "accept_prompt"
    /\ UNCHANGED <<inputVars, paramVars, outVars, caesar_plain, caesar_key, ratio, ans,
                   best_key, best_raw, best_ratio, rounds, ret, stdin, calls, first_ratio,
                   max_ratio, asked, coVars>>

CrackAcceptPrompt ==
    /\ pc = "accept_prompt"
    /\ IF accept_asked(llama_ok, ratio, stop_sense)
       THEN /\ ans' = IF input_eof(stdin) THEN ACCEPT_EOF ELSE strip_lower(Head(stdin))
            /\ stdin' = input_rest(stdin)
            /\ asked' = asked + 1
            /\ IF startswith(ans', "s") THEN pc' = "look_prompt" /\ ret' = ret
               ELSE IF startswith(ans', "q") THEN pc' = "exit" /\ ret' = ret
               ELSE pc' = "returned" /\ ret' = <<key, raw, ratio>>
       ELSE /\ pc' = "look_prompt"
            /\ UNCHANGED <<ans, asked, ret, stdin>>
    /\ UNCHANGED <<inputVars, paramVars, outVars, caesar_plain, caesar_key, ratio, llama_ok,
                   best_key, best_raw, best_ratio, rounds, calls, first_ratio, max_ratio,
                   judged, judge_reply, coVars>>

CrackLookPrompt ==
    /\ pc = "look_prompt"
    /\ IF look_asked(llama_ok, ratio, stop_sense)
       THEN /\ ans' = IF input_eof(stdin) THEN LOOK_EOF ELSE strip_lower(Head(stdin))
            /\ stdin' = input_rest(stdin)
            /\ asked' = asked + 1
       ELSE UNCHANGED <<ans, asked, stdin>>
    /\ IF look_asked(llama_ok, ratio, stop_sense) /\ look_accepts(ans')
       THEN /\ pc' = "returned"
            /\ ret' = <<key, raw, ratio>>
            /\ UNCHANGED <<best_key, best_raw, best_ratio, rounds>>
       ELSE /\ best_key' = key
            /\ best_raw' = raw
            /\ best_ratio' = ratio
            /\ rounds' = 0
            /\ pc' = "loop"
            /\ ret' = ret
    /\ UNCHANGED <<inputVars, paramVars, outVars, caesar_plain, caesar_key, ratio, llama_ok,
                   calls, first_ratio, max_ratio, judged, judge_reply, coVars>>

CrackEscalate ==
    /\ pc = "loop"
    /\ escalate_more(ratio, stop_sense, rounds)
    /\ rounds' = rounds + 1
    /\ restarts' = restarts * 3
    /\ iters' = iters * 3
    /\ lam' = (lam * 11) \div 10
    /\ calls' = calls + 1
    /\ \E out \in crack_once(LanguageModels[lm], cipher, restarts', iters', lam', use_clean,
                             ncpu_of(parallel, cpu_count)) :
          IF out = Error
          THEN /\ pc' = "error"
               /\ UNCHANGED <<outVars, ratio, max_ratio, best_key, best_raw, best_ratio>>
          ELSE /\ key' = out[1]
               /\ raw' = out[2]
               /\ score' = score
               /\ ratio' = sense_ratio(LanguageModels[lm], IGNORE_SET, view(out[2], use_clean))
               /\ max_ratio' = FMax(max_ratio, ratio')
               /\ IF round_better(ratio', best_ratio)
                  THEN best_key' = key' /\ best_raw' = raw' /\ best_ratio' = ratio'
                  ELSE UNCHANGED <<best_key, best_raw, best_ratio>>
               /\ pc' = "loop"
    /\ UNCHANGED <<inputVars, caesar_plain, caesar_key, llama_ok, ans, ret, stdin,
                   first_ratio, judged, asked, judge_reply, coVars>>

CrackReturn ==
    /\ pc = "loop"
    /\ ~escalate_more(ratio, stop_sense, rounds)
    /\ ret' = <<best_key, best_raw, best_ratio>>
    /\ pc' = "returned"
    /\ UNCHANGED <<inputVars, paramVars, outVars, caesar_plain, caesar_key, ratio, llama_ok,
                   ans, best_key, best_raw, best_ratio, rounds, stdin, obsVars, coVars>>

\* ------------------------------------------------------------------
\* Specifications
\* ------------------------------------------------------------------
STOP_SENSE_DEFAULT == <<4, 5>>

CrackLocals0 ==
    /\ caesar_plain = None /\ caesar_key = None /\ ratio = Frac(0, 1)
    /\ llama_ok = FALSE /\ ans = ""
    /\ best_key = None /\ best_raw = <<>> /\ best_ratio = Frac(0, 1)
    /\ rounds = 0 /\ ret = None
    /\ calls = 0 /\ first_ratio = Frac(0, 1) /\ max_ratio = Frac(0, 1)
    /\ judged = 0 /\ asked = 0 /\ judge_reply = NoReply

IdleCrack == pc = "idle" /\ CrackLocals0 /\ stdin = <<>>

OnceLocals0 ==
    /\ tasks = <<>> /\ wk = <<>> /\ results = <<>> /\ stream = NoStream
    /\ jk = JakInit(None) /\ evals = <<>>

IdleOnce == co_pc = "idle" /\ OnceLocals0

IdleOut == key = None /\ raw = <<>> /\ score = NegInf

NoJudge == stop_sense = STOP_SENSE_DEFAULT /\ llama_check = FALSE /\ llama_always = FALSE

\* ciphertexts of the crack_once runs; those of the runs with concurrent workers
SearchCiphers == Texts({1, 2}, MaxCrackLen) \cup {<<1, OtherCh>>, <<2, 3, OtherCh, 1>>}
ParCiphers == {<<1, 2>>}

\* crack_once from its call to its return
InitSearch ==
    /\ cipher \in SearchCiphers
    /\ lm \in DOMAIN LanguageModels
    /\ thr = THR
    /\ IGNORE_SET = {}
    /\ use_clean \in BOOLEAN
    /\ parallel \in BOOLEAN
    /\ cpu_count \in (IF parallel THEN {MaxCpu} ELSE {1})
    /\ (parallel /\ cpu_count > 1) => (cipher \in ParCiphers /\ lm = "LM1" /\ ~use_clean)
    \* the clean mode makes a difference on punctuated text only
    /\ use_clean => HasOther(cipher)
    /\ NoJudge
    /\ restarts \in 0..MaxRestarts
    /\ iters \in 0..MaxIters
    \* at most MaxWork inner iterations of a worker, summed over the processes
    /\ restarts * iters * cpu_count <= MaxWork
    /\ lam = LAM0
    /\ IdleCrack
    /\ co_pc = "start"
    /\ OnceLocals0
    /\ IdleOut

NextSearch ==
    \/ CoStart
    \/ \E i \in 1..MaxCpu : WkStart(i)
    \/ \E i \in 1..MaxCpu : WkRestart(i)
    \/ \E i \in 1..MaxCpu : WkIter(i)
    \/ \E i \in 1..MaxCpu : WkEndTrajectory(i)
    \/ \E i \in 1..MaxCpu : WkReturn(i)
    \/ CoReduce
    \/ JkWhile
    \/ JkPair
    \/ JkFinal
    \/ CoReturn
    \/ CoRaise

SpecSearch == InitSearch /\ [][NextSearch]_vars

\* ciphertexts of the _worker runs
WorkerCiphers == {<<1, 2>>, <<1, OtherCh, 2>>}

\* _worker alone, called with any task
InitWorker ==
    /\ cipher \in WorkerCiphers
    /\ lm = "LM1"
    /\ thr = THR
    /\ IGNORE_SET = {}
    /\ use_clean \in BOOLEAN
    \* the clean mode makes a difference on punctuated text only
    /\ use_clean => HasOther(cipher)
    /\ parallel = FALSE
    /\ cpu_count = 1
    /\ NoJudge
    /\ restarts \in 0..MaxRestarts
    /\ iters \in 0..MaxIters
    \* at most MaxWork inner iterations in the run
    /\ restarts * iters <= MaxWork
    /\ lam = LAM0
    /\ IdleCrack
    /\ co_pc = "workers"
    /\ tasks = <<Task(cipher, restarts, iters, lam, use_clean, 0)>>
    /\ wk = <<WorkerInit>>
    /\ results = <<>> /\ stream = NoStream /\ jk = JakInit(None) /\ evals = <<>>
    /\ IdleOut

NextWorker == WkStart(1) \/ WkRestart(1) \/ WkIter(1) \/ WkEndTrajectory(1) \/ WkReturn(1)

SpecWorker == InitWorker /\ [][NextWorker]_vars

\* the worker runs on whenever it can take a step
SpecWorkerFair == SpecWorker /\ WF_vars(NextWorker)

\* ciphertexts of the jakobsen runs
JakCiphers ==
    Texts({1, 2}, MaxLen) \cup {<<1, SpaceCh, 2>>, <<2, OtherCh, 1>>, <<1, OtherCh>>}

\* jakobsen alone, called with any key
InitJakobsen ==
    /\ cipher \in JakCiphers
    /\ lm \in DOMAIN LanguageModels
    /\ thr = THR
    /\ IGNORE_SET = {}
    /\ use_clean \in BOOLEAN
    \* the clean mode makes a difference on punctuated text only
    /\ use_clean => HasOther(cipher)
    /\ parallel = FALSE
    /\ cpu_count = 1
    /\ NoJudge
    /\ restarts = 0
    /\ iters = 0
    /\ lam = LAM0
    /\ IdleCrack
    /\ co_pc = "jakobsen"
    /\ tasks = <<>> /\ wk = <<>> /\ results = <<>> /\ evals = <<>> /\ stream = NoStream
    /\ \E k \in random_key : key = k /\ jk = JakInit(k)
    /\ raw = <<>> /\ score = NegInf

NextJakobsen == JkWhile \/ JkPair \/ JkFinal

SpecJakobsen == InitJakobsen /\ [][NextJakobsen]_vars

\* the polisher runs on whenever it can take a step
SpecJakobsenFair == SpecJakobsen /\ WF_vars(NextJakobsen)

\* ciphertexts and ignore sets of the caesar_try runs
CaesarChars == Letters \cup {NLetters + 1, SpaceCh, OtherCh}
CaesarCiphers == Texts(CaesarChars, MaxLen)
IgnoreSets == {{}, {lower(<<2>>)}}

\* crack up to the return of caesar_try
InitCaesar ==
    /\ cipher \in CaesarCiphers
    /\ lm \in DOMAIN LanguageModels
    /\ thr = THR
    /\ IGNORE_SET \in IgnoreSets
    /\ use_clean \in BOOLEAN
    \* the clean mode makes a difference on punctuated text only
    /\ use_clean => HasOther(cipher)
    /\ parallel = FALSE
    /\ cpu_count = 1
    /\ NoJudge
    /\ restarts = 1
    /\ iters = 1
    /\ lam = LAM0
    /\ pc = "start"
    /\ CrackLocals0
    /\ stdin = <<>>
    /\ IdleOnce
    /\ IdleOut

NextCaesar == CrackCaesar

SpecCaesar == InitCaesar /\ [][NextCaesar]_vars

\* sense_ratio and decode called on their own
CallSenseRatio ==
    /\ pc = "call_sense_ratio"
    /\ ratio' = sense_ratio_at(LanguageModels[lm], IGNORE_SET, cipher, thr)
    /\ pc' = "sense_ratio_returned"
    /\ UNCHANGED <<inputVars, paramVars, outVars, caesar_plain, caesar_key, llama_ok, ans,
                   best_key, best_raw, best_ratio, rounds, ret, stdin, obsVars, coVars>>

\* decode with a key, then decode of the result with the inverse of the key
CallDecodeTwice ==
    /\ pc = "call_decode"
    /\ raw' = decode(decode(cipher, key), invert(key))
    /\ pc' = "decode_returned"
    /\ UNCHANGED <<inputVars, paramVars, key, score, caesar_plain, caesar_key, ratio,
                   llama_ok, ans, best_key, best_raw, best_ratio, rounds, ret, stdin,
                   obsVars, coVars>>

\* texts, ignore sets and thresholds of the calls
CallTexts == Texts(CaesarChars, MaxLen)
CallIgnoreSets == IgnoreSets \cup {{lower(<<1>>), lower(<<2>>), lower(<<1, 2>>)}}
Thresholds == {0, THR, 2 * THR + 21}

InitCalls ==
    /\ cipher \in CallTexts
    /\ use_clean = FALSE
    /\ parallel = FALSE
    /\ cpu_count = 1
    /\ NoJudge
    /\ restarts = 1
    /\ iters = 1
    /\ lam = LAM0
    /\ CrackLocals0
    /\ stdin = <<>>
    /\ IdleOnce
    /\ raw = <<>> /\ score = NegInf
    /\ \/ /\ pc = "call_sense_ratio"
          /\ lm \in DOMAIN LanguageModels
          /\ IGNORE_SET \in CallIgnoreSets
          /\ thr \in Thresholds
          /\ key = None
       \/ /\ pc = "call_decode"
          /\ lm = "LM1"
          /\ IGNORE_SET = {}
          /\ thr = THR
          /\ key \in random_key

NextCalls == CallSenseRatio \/ CallDecodeTwice

SpecCalls == InitCalls /\ [][NextCalls]_vars

\* values of --lambda: the default, and a negative weight
Lambdas == {LAM0, -LAM0}

\* crack from its call to its return
Init ==
    /\ cipher \in CrackCiphers
    /\ lm \in DOMAIN LanguageModels
    /\ thr = THR
    /\ IGNORE_SET = {}
    /\ use_clean \in BOOLEAN
    /\ parallel \in BOOLEAN
    /\ cpu_count = (IF parallel THEN MaxCpu ELSE 1)
    /\ stop_sense \in {STOP_SENSE_DEFAULT, <<1, 2>>}
    /\ llama_check \in BOOLEAN
    /\ llama_always \in BOOLEAN
    /\ llama_always => llama_check
    \* the clean mode and the ratio 1/2 make a difference on punctuated text only
    /\ use_clean => HasOther(cipher)
    /\ stop_sense # STOP_SENSE_DEFAULT => HasOther(cipher)
    /\ parallel => (lm = "LM1" /\ NoJudge)
    /\ restarts \in 0..1
    /\ iters = MaxIters
    /\ lam \in Lambdas
    \* a negative lambda is run with the plain sequential search only
    /\ lam # LAM0 => (~parallel /\ ~llama_check /\ lm = "LM1")
    /\ pc = "start"
    /\ CrackLocals0
    /\ stdin \in StdinContents
    /\ IdleOnce
    /\ IdleOut

Next ==
    \/ CrackCaesar
    \/ CrackFirstPass
    \/ CrackJudge
    \/ CrackAcceptPrompt
    \/ CrackLookPrompt
    \/ CrackEscalate
    \/ CrackReturn

Spec == Init /\ [][Next]_vars

\* ------------------------------------------------------------------
\* Properties
\* ------------------------------------------------------------------
\* the sense ratio crack computes for a plaintext
RatioOf(text) == sense_ratio(LanguageModels[lm], IGNORE_SET, view(text, use_clean))

\* the ciphertext under the rotation caesar_try tries at step s
Rotated(s) == translate(upper(cipher), rotation(s))

Shifts == 0..(NLetters - 1)

\* the highest sense ratio over the rotations
HighestRotationRatio ==
    CHOOSE r \in {RatioOf(Rotated(s)) : s \in Shifts} :
        \A s \in Shifts : FLe(RatioOf(Rotated(s)), r)

\* the combined score jakobsen compares keys by
PolishScore(k) == key_score(LanguageModels[lm], cipher, lam, use_clean)[k]

\* the keys a search holds: those of the workers, of the gathered results, of
\* the polisher and of crack_once
KeysHeld ==
    ({wk[i].key : i \in DOMAIN wk} \cup {wk[i].bk : i \in DOMAIN wk}
     \cup {results[i][1] : i \in DOMAIN results} \cup {jk.best_key, key}) \ {None}

\* C1: every key that exists during a search is a permutation of the
\* alphabet: every key random_key can draw, every key a worker or the
\* polisher holds, and every swapped key swap_two or jakobsen forms from it.
C1_KeysArePermutations ==
    /\ \A k \in random_key : IsPerm(k)
    /\ \A k \in KeysHeld : IsPerm(k)
    /\ \A i \in DOMAIN wk :
          (wk[i].pc = "iter" /\ wk[i].key # None) =>
              \A a, b \in 1..NLetters : a # b => IsPerm(swap_two(wk[i].key, a, b))
    /\ (co_pc = "jakobsen" /\ jk.pc = "pair" /\ jk.best_key # None) =>
          IsPerm(jak_swap(jk.best_key, jk.i, jk.j))

\* C1 witness: the polisher has adopted a swapped key that differs from the
\* key the workers handed over
C1_PolishedWorkerKey ==
    /\ co_pc = "jakobsen" /\ jk.pc = "pair" /\ jk.changed
    /\ results # <<>> /\ key # None /\ jk.best_key # key

\* C2: jakobsen replaces best_key only by the swapped key of the current pair,
\* and only when its combined score is strictly greater than that of best_key;
\* the combined score of best_key never decreases.
C2_StrictAdoption ==
    [][/\ (jk'.best_key # jk.best_key) =>
            /\ jk.pc = "pair"
            /\ jk'.best_key = jak_swap(jk.best_key, jk.i, jk.j)
            /\ PolishScore(jk'.best_key) > PolishScore(jk.best_key)
       /\ PolishScore(jk'.best_key) >= PolishScore(jk.best_key)]_vars

\* C2 witness: a swap has been adopted in the current pass and a later pair
\* of the pass is about to be evaluated
C2_Adopted == co_pc = "jakobsen" /\ jk.pc = "pair" /\ jk.changed /\ Len(evals) >= 2

\* the position pairs i < j
PassPairs == {p \in (1..NLetters) \X (1..NLetters) : p[1] < p[2]}

\* a pass of the polisher has just ended, or the polisher is past its passes
PassEnded == jk.pc \in {"final", "done"} \/ (jk.pc = "while" /\ jk.i # 0)

\* C3: jakobsen terminates, and each pass evaluates exactly the position pairs
\* i < j, each once.
C3_Terminates ==
    /\ [](PassEnded =>
             /\ Len(evals) = Cardinality(PassPairs)
             /\ {evals[n] : n \in 1..Len(evals)} = PassPairs)
    /\ <>(jk.pc = "done")

\* C3 witness: the polisher is done after a pass, with a key other than the
\* one it was called with
C3_DoneAfterAdoption ==
    jk.pc = "done" /\ jk.best_key # key /\ Len(evals) = Cardinality(PassPairs)

\* C4: one crack invocation runs at most 3 escalation rounds and at most 4
\* crack_once calls.
C4_RoundsCapped == rounds <= 3 /\ calls <= 4 /\ calls <= rounds + 1

\* C4 witness: crack has returned after 3 rounds and 4 crack_once calls
C4_ThreeRounds == pc = "returned" /\ rounds = 3 /\ calls = 4

\* C5: the ratio crack returns after its rounds is the highest of all passes
\* run, hence at least that of the first pass, and the returned key and
\* plaintext are those of a pass with that ratio: the best triple is the first
\* pass's when the loop is entered, each round keeps it or replaces it by the
\* round's own triple, and the loop returns it.
C5_BestOfRounds ==
    /\ []((pc = "returned" /\ calls >= 1) =>
             /\ ret[3] = max_ratio
             /\ FGe(ret[3], first_ratio)
             /\ ret[2] = decode(cipher, ret[1])
             /\ ret[3] = RatioOf(ret[2]))
    /\ [][(pc = "look_prompt" /\ pc' = "loop") =>
             <<best_key', best_raw', best_ratio'>> = <<key, raw, ratio>>]_vars
    /\ [][(pc = "loop" /\ pc' = "loop") =>
             /\ <<best_key', best_raw', best_ratio'>> \in
                    {<<best_key, best_raw, best_ratio>>, <<key', raw', ratio'>>}
             /\ FGe(best_ratio', ratio')]_vars
    /\ [][(pc = "loop" /\ pc' = "returned") =>
             ret' = <<best_key, best_raw, best_ratio>>]_vars

\* C5 witness: crack has returned after 3 rounds with a ratio above that of
\* the first pass and above that of the last round
C5_EarlierRoundWins ==
    /\ pc = "returned" /\ rounds = 3
    /\ FGt(ret[3], first_ratio) /\ FLt(ratio, ret[3])

\* C6: crack_once never ends in an error, and the key it returns is a
\* permutation of the alphabet that decodes the ciphertext to the returned
\* plaintext.
C6_SearchTotal ==
    /\ co_pc # "error"
    /\ co_pc = "done" => (key # None /\ IsPerm(key) /\ raw = decode(cipher, key))

C8_RecoversEveryPlaintext ==
    pc # "start" =>
        \A s \in Shifts :
            FGt(RatioOf(Rotated(s)), <<9, 10>>) => caesar_plain = Rotated(s)

\* the rotation tried at step s is the first one with the highest ratio
FirstBest(s) ==
    /\ \A t \in 0..(s - 1) : FLt(RatioOf(Rotated(t)), RatioOf(Rotated(s)))
    /\ \A t \in (s + 1)..(NLetters - 1) : FLe(RatioOf(Rotated(t)), RatioOf(Rotated(s)))

\* C8 amended: when a rotation of the ciphertext has a sense ratio above 0.90,
\* no rotation tried before it has a ratio as high and no rotation tried after
\* it has a higher one, caesar_try returns that rotation.
C8_RecoversFirstBest ==
    pc # "start" =>
        \A s \in Shifts :
            (FGt(RatioOf(Rotated(s)), <<9, 10>>) /\ FirstBest(s)) => caesar_plain = Rotated(s)

\* C8 witness: a plaintext shifted by a nonzero amount is recovered, and
\* another rotation has the same ratio
C8_RecoveredAmongTies ==
    /\ pc = "returned"
    /\ \E s \in 1..(NLetters - 1) :
          /\ FGt(RatioOf(Rotated(s)), <<9, 10>>) /\ FirstBest(s)
          /\ caesar_plain = Rotated(s) /\ Rotated(s) # upper(cipher)
          /\ \E t \in (s + 1)..(NLetters - 1) :
                Rotated(t) # Rotated(s) /\ RatioOf(Rotated(t)) = RatioOf(Rotated(s))

\* C9: whenever the best rotation's sense ratio is at least 0.90, crack
\* returns right after caesar_try: no crack_once call, no judge call and no
\* prompt happens.
C9_FastPathSkipsSearch ==
    FGe(HighestRotationRatio, <<9, 10>>) =>
        /\ pc \in {"start", "returned"}
        /\ calls = 0 /\ judged = 0 /\ asked = 0

\* C10: when the fast path does not return, the first pass has a ratio below
\* stop_sense and the judge gives no positive answer, then a second prompt
\* that meets the end of input or an answer other than "y" and the empty line
\* leads into the loop, and crack returns after at least one round.
C10_EscalatesWhenNotAccepted ==
    /\ [][(/\ pc = "look_prompt"
           /\ FLt(first_ratio, stop_sense) /\ ~llama_ok
           /\ (stdin = <<>> \/ strip_lower(Head(stdin)) \notin {"y", ""})) =>
             (pc' = "loop" /\ rounds' = 0)]_vars
    /\ []((/\ pc = "returned" /\ calls >= 1
           /\ FLt(first_ratio, stop_sense) /\ ~llama_ok
           /\ ans \notin {"y", ""}) => rounds >= 1)

\* C10 witness: crack has returned after at least one round; the judge was
\* consulted and said no, and the second prompt, the only one shown, was
\* answered "n" (typed, or taken at the end of input)
C10_EscalatedAtEndOfInput ==
    pc = "returned" /\ rounds >= 1 /\ asked = 1 /\ ans = "n" /\ judged = 1 /\ ~llama_ok

\* the score tables of the search under way
SearchScore == Tabulate(key_score(LanguageModels[lm], cipher, lam, use_clean))
SearchScoreClean == Tabulate(key_score(LanguageModels[lm], cipher, lam, TRUE))

\* C11: the result of _worker is a function of its arguments: two workers of
\* one crack_once run that got the same task (the same seed) are in the same
\* local state whenever they are at the same point of their loops, and return
\* the same result, whatever the order they run in; and the result of
\* crack_once is a function of the workers' results, so runs with the same
\* inputs and seeds return the same key, plaintext and score.
C11_SeedDeterminesResult ==
    /\ \A i, j \in DOMAIN wk :
          (/\ tasks[i] = tasks[j]
           /\ wk[i].pc # "start" /\ wk[i].pc = wk[j].pc
           /\ wk[i].idx = wk[j].idx /\ wk[i].it = wk[j].it) => wk[i] = wk[j]
    /\ co_pc = "done" =>
          <<key, raw, score>> =
              crack_once_finish(cipher, max_first(results), SearchScore, SearchScoreClean)

\* C11 witness: two workers with the same seed have returned the same key
\* after a restart with an inner iteration
C11_TwinWorkersAgree ==
    /\ co_pc = "workers" /\ Len(wk) >= 2
    /\ tasks[1].seed = tasks[2].seed /\ tasks[1].restarts >= 1 /\ tasks[1].iters >= 1
    /\ wk[1].pc = "done" /\ wk[2].pc = "done"
    /\ wk[1].bk # None /\ wk[1].bk = wk[2].bk

\* a * d^n
RECURSIVE FPow(_, _, _)
FPow(a, d, n) == IF n = 0 THEN a ELSE FMul(FPow(a, d, n - 1), d)

\* C12: in a trajectory of _worker the temperature is 20.0 * 0.995^k after k
\* inner iterations: a restart begins at 20.0, and every inner iteration,
\* accepted or rejected, multiplies the temperature by 0.995 and so lowers it.
C12_TemperatureDecays ==
    /\ [](\A i \in DOMAIN wk :
             wk[i].pc = "iter" => wk[i].temp = FPow(<<20, 1>>, <<995, 1000>>, wk[i].it))
    /\ [][\A i \in DOMAIN wk :
             (co_pc' = "workers" /\ wk[i].pc = "iter" /\ wk'[i].pc = "iter" /\ wk'[i] # wk[i]) =>
                 /\ wk'[i].it = wk[i].it + 1
                 /\ wk'[i].temp = FMul(wk[i].temp, <<995, 1000>>)
                 /\ FLt(wk'[i].temp, wk[i].temp)]_vars
    /\ [][\A i \in DOMAIN wk :
             (co_pc' = "workers" /\ wk[i].pc = "restart" /\ wk'[i].pc = "iter") =>
                 (wk'[i].temp = <<20, 1>> /\ wk'[i].it = 0)]_vars

\* C12 witness: a worker is past two inner iterations of a trajectory, the
\* first of which it rejected and the second of which it accepted
C12_TwoIterations ==
    \E i \in DOMAIN wk :
        /\ wk[i].pc = "iter" /\ wk[i].it = 2
        /\ Len(stream[tasks[i].seed]) = 3
        /\ ~stream[tasks[i].seed][2][3] /\ stream[tasks[i].seed][3][3]

\* the letter runs of a text: the intervals of uppercase letters that no
\* neighbouring uppercase letter extends
Tokens(t) ==
    {iv \in (1..Len(t)) \X (1..Len(t)) :
        /\ iv[1] <= iv[2]
        /\ \A n \in iv[1]..iv[2] : t[n] \in Letters
        /\ (iv[1] = 1 \/ t[iv[1] - 1] \notin Letters)
        /\ (iv[2] = Len(t) \/ t[iv[2] + 1] \notin Letters)}

\* the word of a token, in lowercase
TokenWord(t, iv) == lower(SubSeq(t, iv[1], iv[2]))

\* the tokens the ignore set leaves, and those of them at or above thr
Counted == {iv \in Tokens(cipher) : TokenWord(cipher, iv) \notin IGNORE_SET}
Sensible ==
    {iv \in Counted :
        (IF TokenWord(cipher, iv) \in DOMAIN LanguageModels[lm].zipf
         THEN LanguageModels[lm].zipf[TokenWord(cipher, iv)] ELSE 0) >= thr}

\* C13: sense_ratio returns a value in [0.0, 1.0], the number of non-ignored
\* tokens with a frequency of at least thr over the number of non-ignored
\* tokens, and exactly 1.0 when no token remains.
C13_SenseRatioIsGoodShare ==
    pc = "sense_ratio_returned" =>
        /\ 0 <= ratio[1] /\ ratio[1] <= ratio[2] /\ ratio[2] > 0
        /\ Counted # {} =>
              ratio[1] * Cardinality(Counted) = Cardinality(Sensible) * ratio[2]
        /\ Counted = {} => ratio = <<1, 1>>

\* C13 witness: sense_ratio has returned 0 for a text from which the ignore
\* set removed a token that is at or above the threshold
C13_IgnoredGoodToken ==
    /\ pc = "sense_ratio_returned"
    /\ Counted # {} /\ ratio = <<0, 1>> /\ thr > 0
    /\ \E iv \in Tokens(cipher) \ Counted :
          zipf_frequency(LanguageModels[lm], TokenWord(cipher, iv)) >= thr

\* C14 as stated: decoding with a key and then with its inverse gives the
\* cleaned ciphertext (uppercase, letters and spaces only).
C14_RoundTripIsClean == pc = "decode_returned" => raw = clean(cipher)

\* C14 amended: decoding with a key and then with its inverse gives the
\* uppercased ciphertext, all other characters kept in place; it is the
\* cleaned ciphertext when the ciphertext holds letters and spaces only.
C14_RoundTripIsUpper ==
    pc = "decode_returned" =>
        /\ Len(raw) = Len(cipher)
        /\ \A n \in 1..Len(cipher) :
              raw[n] = (IF cipher[n] \in LowerLetters THEN cipher[n] - NLetters ELSE cipher[n])
        /\ (\A n \in 1..Len(cipher) : cipher[n] # OtherCh) => raw = clean(cipher)

\* C14 witness: a ciphertext with a lowercase letter and a punctuation mark
\* went through a key that moves its letters, and back
C14_PunctuatedRoundTrip ==
    /\ pc = "decode_returned"
    /\ \E n \in 1..Len(cipher) : cipher[n] = OtherCh
    /\ \E n \in 1..Len(cipher) : cipher[n] \in LowerLetters /\ key[cipher[n] - NLetters] # cipher[n] - NLetters

\* C15: the lambda and the restarts passed to a crack_once call of a crack
\* invocation are never lower than those passed to the call before it.
C15_BudgetsNeverFall ==
    [][(calls >= 1 /\ calls' = calls + 1) => (lam' >= lam /\ restarts' >= restarts)]_vars

\* the judge call could not be made, raised (a timeout, a refused
\* connection) or came back with a status other than 200
JudgeFailed(r) == ~r.requests \/ r.raised \/ r.status # 200

\* C16: a judge call that fails never aborts crack and leaves it as an
\* unconfigured judge does: the call sets llama_ok to False and nothing else
\* that crack reads afterwards, crack goes on to its prompts, and llama_ok
\* stays False and crack out of the error state for the rest of the run.
C16_FailedJudgeIsNoJudge ==
    /\ [][(pc = "judge" /\ judged' = judged + 1 /\ JudgeFailed(judge_reply')) =>
             /\ llama_ok' = FALSE
             /\ pc' = "accept_prompt"
             /\ UNCHANGED <<inputVars, paramVars, outVars, caesar_plain, caesar_key, ratio,
                            ans, best_key, best_raw, best_ratio, rounds, ret, stdin>>]_vars
    /\ []((judge_reply # NoReply /\ JudgeFailed(judge_reply)) =>
             (llama_ok = FALSE /\ pc # "error"))

\* C16 witness: crack has returned after rounds that followed a judge reply
\* with a status other than 200 and the word yes in it
C16_ReturnedAfterBadStatus ==
    /\ pc = "returned" /\ rounds >= 1
    /\ judge_reply # NoReply /\ judge_reply.requests /\ ~judge_reply.raised
    /\ judge_reply.status # 200 /\ judge_reply.yes

\* C17 as stated: a prompt that meets the end of input accepts: crack returns
\* the result it has at that prompt.
C17_EndOfInputAccepts ==
    [][(pc \in {"accept_prompt", "look_prompt"} /\ asked' = asked + 1 /\ stdin = <<>>) =>
          (pc' = "returned" /\ ret' = <<key, raw, ratio>>)]_vars

\* the polisher was called and has not taken a step yet
PolisherCalled == co_pc = "jakobsen" /\ jk.pc = "while" /\ jk.i = 0 /\ results # <<>>

\* the result i has a score at least that of every result, and above that of
\* every result before it
FirstHighest(i) ==
    /\ \A j \in 1..Len(results) : ScoreLe(results[j][3], results[i][3])
    /\ \A j \in 1..(i - 1) : results[j][3] # results[i][3]

\* C18: crack_once reduces only when every worker has returned, over the
\* workers' results in task order; the key it hands to the polisher is that
\* of the first result, in task order, with the highest score.
C18_ReducesAfterAllWorkers ==
    /\ [][(co_pc = "workers" /\ co_pc' # "workers") =>
             /\ \A i \in 1..Len(tasks) : wk[i].pc = "done"
             /\ results' = [i \in 1..Len(tasks) |-> <<wk[i].bk, wk[i].br, wk[i].best_s>>]]_vars
    /\ [](PolisherCalled =>
             \E i \in 1..Len(results) : FirstHighest(i) /\ jk.best_key = results[i][1])

\* C18 witness: two workers returned different keys with the same score, and
\* the polisher was called
C18_TiedWorkers ==
    /\ PolisherCalled /\ Len(results) = 2
    /\ results[1][3] = results[2][3] /\ results[1][1] # results[2][1]

\* C19: the seeds of the workers of a crack_once invocation are pairwise
\* distinct.
C19_SeedsDistinct ==
    \A i, j \in 1..Len(tasks) : i # j => tasks[i].seed # tasks[j].seed

\* the text t is as long as the ciphertext and has every character of the
\* ciphertext that is not a letter at its position
SameShape(t) ==
    /\ Len(t) = Len(cipher)
    /\ \A n \in 1..Len(cipher) :
          cipher[n] \notin (Letters \cup LowerLetters) => t[n] = cipher[n]

C21_LocalOptimum ==
    (co_pc = "jakobsen" /\ jk.pc \in {"final", "done"}) =>
        \A p \in PassPairs :
            PolishScore(jak_swap(jk.best_key, p[1], p[2])) <= PolishScore(jk.best_key)

\* C21 witness: jakobsen has returned a key it adopted, and an exchange of
\* two positions of it scores strictly less
C21_ReturnedStrictOptimum ==
    /\ co_pc = "jakobsen" /\ jk.pc = "done" /\ jk.best_key # key
    /\ \E p \in PassPairs :
          PolishScore(jak_swap(jk.best_key, p[1], p[2])) < PolishScore(jk.best_key)

\* C22 (as claimed): the score a worker returns is at least the score of
\* every key that was the current key at a step of a trajectory of its run.
C22_BestObserved ==
    \A i \in DOMAIN wk : wk[i].pc = "done" => ScoreLe(wk[i].peak, wk[i].best_s)

\* the end states of the trajectories of worker i
EndsOf(i) == {wk[i].ends[n] : n \in 1..Len(wk[i].ends)}

\* C22: the result of a run is the best trajectory end.  The score a worker
\* returns is the final score of one of its trajectories, with that
\* trajectory's final key, and is at least the final score of each of its
\* trajectories; the score crack_once selects from the workers is at least
\* the score every worker returned.  A key that was current in the middle of
\* a trajectory can score more.
C22_BestOfTrajectoryEnds ==
    /\ [](\A i \in DOMAIN wk : wk[i].pc = "done" =>
             /\ \A e \in EndsOf(i) : ScoreLe(e[3], wk[i].best_s)
             /\ EndsOf(i) # {} =>
                   \E e \in EndsOf(i) : e[3] = wk[i].best_s /\ e[1] = wk[i].bk)
    /\ [][(co_pc = "workers" /\ co_pc' = "jakobsen") =>
             \A i \in DOMAIN wk :
                 /\ ScoreLe(wk[i].best_s, score')
                 /\ \A e \in EndsOf(i) : ScoreLe(e[3], score')]_vars

\* C22 witness: a worker has returned from a run with inner steps a score
\* strictly below the score of a key that was current during the run
C22_AcceptedWorseMove ==
    \E i \in DOMAIN wk :
        /\ wk[i].pc = "done" /\ tasks[i].iters >= 1 /\ wk[i].ends # <<>>
        /\ wk[i].best_s # NegInf /\ wk[i].peak[1] > wk[i].best_s[1]

\* the trajectory n of the worker is the first with the highest final score
FirstBestEnd(w, n) ==
    /\ \A m \in 1..Len(w.ends) : ScoreLe(w.ends[m][3], w.ends[n][3])
    /\ \A m \in 1..(n - 1) : w.ends[m][3] # w.ends[n][3]

\* C23: _worker runs exactly `restarts` trajectories of exactly `iters` inner
\* steps each, every trajectory starting from a newly drawn random key at
\* the starting temperature, and then returns the end state (key, plaintext,
\* score) of the trajectory with the highest final score, the earliest one on
\* ties.
C23_RunsAllTrajectories ==
    /\ [][(wk[1].pc = "restart" /\ wk'[1].pc = "iter") =>
             /\ wk'[1].key \in random_key
             /\ wk'[1].raw = decode(tasks[1].cipher, wk'[1].key)
             /\ wk'[1].it = 0 /\ wk'[1].temp = TEMP0
             /\ wk'[1].rng = rng_next(wk[1].rng)]_vars
    /\ [](wk[1].pc = "done" =>
             /\ Len(wk[1].ends) = tasks[1].restarts
             /\ \A n \in 1..Len(wk[1].ends) : wk[1].ends[n][4] = tasks[1].iters
             /\ \A n \in 1..Len(wk[1].ends) :
                   FirstBestEnd(wk[1], n) =>
                       WorkerResult(wk[1]) = <<wk[1].ends[n][1], wk[1].ends[n][2], wk[1].ends[n][3]>>)
    /\ <>(wk[1].pc = "done")

\* C23 witness: the worker has returned after two trajectories that ended
\* with different keys of the same score
C23_TiedTrajectories ==
    /\ wk[1].pc = "done" /\ Len(wk[1].ends) = 2
    /\ wk[1].ends[1][3] = wk[1].ends[2][3]
    /\ wk[1].ends[1][1] # wk[1].ends[2][1]
    /\ wk[1].bk = wk[1].ends[1][1]

\* C24: when the accept prompt (shown when the judge approved or the ratio of
\* the first pass meets stop_sense) is answered "search", crack runs at least
\* one further round before it returns.
C24_SearchAnswerSearches ==
    (/\ pc = "returned" /\ calls >= 1 /\ ans = "s"
     /\ (llama_ok \/ FGe(first_ratio, stop_sense))) => rounds >= 1

\* the combined score of the cleaned text a key decodes the ciphertext to
CleanScore(k) == key_score(LanguageModels[lm], cipher, lam, TRUE)[k]

\* the ciphertext has letters and spaces only
LettersAndSpaces == \A n \in 1..Len(cipher) : cipher[n] \in (Letters \cup LowerLetters \cup {SpaceCh})

====
